---- MODULE Spec2Model ----
(***************************************************************************)
(* Supplier onboarding batch job (application/jobs/supplierJobs.py):       *)
(* process_pending_suppliers and _after_slack_success, run by NumProcs     *)
(* application instances against one SUPPLIER_LIST table and one named     *)
(* MySQL lock.                                                             *)
(* The commission of the settlement sheet (make_settlement_excel in        *)
(* application/src/service/settlement_service.py) is modelled with it.     *)
(***************************************************************************)
EXTENDS Integers, Sequences, FiniteSets, TLC

NumRecords == 2      \* rows of SUPPLIER_LIST in the model
NumProcs   == 2      \* application instances running the scheduler
MaxBatch   == 2      \* batch_size is drawn from 1..MaxBatch
MaxCount   == 2      \* the call counters of the history saturate here
MaxAttempts == 4     \* Slack calls of one run of an adapter function
MaxStarts == 3       \* calls of start_scheduler in one process

Records == 1..NumRecords
Procs   == 1..NumProcs

NULL == "NULL"       \* SQL NULL / Python None of a string column

(* A nullable numeric column is the empty set (NULL) or a singleton.       *)
NoNum == {}
Num(n) == {n}

-----------------------------------------------------------------------------
(* SUPPLIER_LIST rows.  The columns the job never writes are drawn from    *)
(* the profiles below; STATE_CODE, CHANNEL_ID, CONTRACT_STATUS and         *)
(* CONTRACT_ID are the ones it writes.                                     *)

Row(code, name, email, sid, spw, skip, tmpl, pct, th, pu, po, st, cs) ==
  [ supplierCode |-> code, companyName |-> name, email |-> email,
    supplierID |-> sid, supplierPW |-> spw,
    contractSkip |-> skip, contractTemplate |-> tmpl,
    contractPercent |-> pct, contractThreshold |-> th,
    contractPercentUnder |-> pu, contractPercentOver |-> po,
    stateCode |-> st, channelId |-> NULL,
    contractStatus |-> cs, contractId |-> NULL ]

(* Rows as the registration flows leave them: the admin form stores the    *)
(* contract status 'S', 'P' or '', approval makes the state 'RA', and rows *)
(* inserted without a state or a contract status have NULL.                *)

\* template A, 15 percent, neither state nor contract status yet
RowFlat == Row(TRUE, TRUE, TRUE, TRUE, TRUE, FALSE, "A", Num(15), NoNum, NoNum, NoNum, NULL, NULL)
\* approved, template B, contract status 'P' as the admin form stores it
RowTiered == Row(TRUE, TRUE, TRUE, TRUE, TRUE, FALSE, "B", NoNum, Num(1000), Num(10), Num(20), "RA", "P")
\* contract signed outside: the skip flag is set
RowSkipped == Row(TRUE, TRUE, TRUE, TRUE, TRUE, TRUE, "A", Num(15), NoNum, NoNum, NoNum, "RA", "S")
\* skip flag set and 150 percent: the admin form checks no percent of a skipped contract
RowSkippedBad == Row(TRUE, TRUE, TRUE, TRUE, TRUE, TRUE, "A", Num(150), NoNum, NoNum, NoNum, "RA", "S")
\* template A with 150 percent
RowBadFlat == Row(TRUE, TRUE, TRUE, TRUE, TRUE, FALSE, "A", Num(150), NoNum, NoNum, NoNum, NULL, NULL)
\* template B with a negative threshold
RowBadTiered == Row(TRUE, TRUE, TRUE, TRUE, TRUE, FALSE, "B", NoNum, Num(-1), Num(10), Num(20), "RA", "P")

\* the supplier code, the company name or the email left empty
RowNoCode == [RowFlat EXCEPT !.supplierCode = FALSE]
RowNoName == [RowFlat EXCEPT !.companyName = FALSE]
RowNoEmail == [RowFlat EXCEPT !.email = FALSE]

Profiles == { RowFlat, RowTiered }
FieldProfiles == { RowFlat, RowNoCode, RowNoName, RowNoEmail }
ContractProfiles == { RowTiered, RowSkippedBad, RowBadFlat, RowBadTiered }
SkipProfiles == { RowTiered, RowSkipped }

(* What the job has done for a row so far (history, not program state).    *)
NoHist == [ chan |-> 0, mailCall |-> 0, mailSent |-> 0, doc |-> 0, skipNote |-> 0 ]

(* The collaborator calls of the latest step, and the row they were for.   *)
NoCalls == [ by |-> 0, row |-> 0, made |-> {} ]
Calls(p, s, made) == [ by |-> p, row |-> s, made |-> made ]

Inc(n) == IF n < MaxCount THEN n + 1 ELSE n

(* No settlement is being made.                                            *)
NoSettlement == [ stage |-> "none" ]

(* No adapter function is being run.                                      *)
NoAdapter == [ fn |-> "none", stage |-> "idle", log |-> <<>>, slept |-> 0 ]

(* scheduler.py before any call of start_scheduler.                       *)
NoSched == [ stage |-> "none" ]

VARIABLES
  batch_size,     \* the batch_size the scheduler passes to the job
  db,             \* db[i]: row i of SUPPLIER_LIST, as committed
  lock,           \* holder of the named lock, 0 when free
  pc,             \* pc[p]: where instance p is in process_pending_suppliers
  rows,           \* rows[p]: the selected seqs, ascending
  prev_state_map, \* prev_state_map[p][i]: stateCode of i when selected
  idx,            \* idx[p]: position of the loop in rows[p]
  need_contract,  \* need_contract[p]: the local of the loop body
  hist,           \* hist[i]: how often the calls that must not repeat were made for row i
  calls,          \* the collaborator calls made by the latest step
  settlement,     \* make_settlement_excel: the supplier, items_total and commission
  adapter,        \* a Slack adapter function being run: its responses so far
  sched           \* scheduler.py of one process: _scheduler, the schedulers, the job instances

vars == <<batch_size, db, lock, pc, rows, prev_state_map, idx, need_contract, hist, calls,
          settlement, adapter, sched>>

-----------------------------------------------------------------------------
Min(S) == CHOOSE m \in S : \A x \in S : m <= x

RECURSIVE FirstN(_, _)
FirstN(S, n) ==
  IF S = {} \/ n = 0 THEN <<>>
  ELSE LET m == Min(S) IN <<m>> \o FirstN(S \ {m}, n - 1)

Range(q) == { q[k] : k \in 1..Len(q) }

(* base_target taking rows in error as well.                               *)
BaseTargetWithError(r) ==
  \/ r.stateCode \in {NULL, "I", "E"}
  \/ r.stateCode = "RA" /\ r.supplierID /\ r.supplierPW

(* base_target without the tests of SUPPLIER_ID and SUPPLIER_PW.           *)
BaseTargetNoCredentials(r) == r.stateCode \in {NULL, "RA", "I"}

(* base_target of the SELECT.                                              *)
base_target(r) ==
  \/ r.stateCode = NULL
  \/ r.stateCode = "RA" /\ r.supplierID /\ r.supplierPW
  \/ r.stateCode = "I"

Max(S) == CHOOSE m \in S : \A x \in S : m >= x

RECURSIVE LastN(_, _)
LastN(S, n) ==
  IF S = {} \/ n = 0 THEN <<>>
  ELSE LET m == Max(S) IN <<m>> \o LastN(S \ {m}, n - 1)

(* The SELECT with ORDER BY seq DESC.                                      *)
SelectRowsDesc(d, n) == LastN({ i \in Records : base_target(d[i]) }, n)

(* SELECT ... WHERE base_target ORDER BY seq ASC LIMIT batch_size          *)
SelectRows(d, n) == FirstN({ i \in Records : base_target(d[i]) }, n)

InitWith(profiles) ==
  /\ batch_size \in 1..MaxBatch
  /\ db \in [Records -> profiles]
  /\ lock = 0
  /\ pc = [p \in Procs |-> "idle"]
  /\ rows = [p \in Procs |-> <<>>]
  /\ prev_state_map = [p \in Procs |-> [i \in Records |-> NULL]]
  /\ idx = [p \in Procs |-> 0]
  /\ need_contract = [p \in Procs |-> FALSE]
  /\ hist = [i \in Records |-> NoHist]
  /\ calls = NoCalls
  /\ settlement = NoSettlement
  /\ adapter = NoAdapter
  /\ sched = NoSched

Init == InitWith(Profiles)
InitContract == InitWith(ContractProfiles)
InitSkip == InitWith(SkipProfiles)
InitField == InitWith(FieldProfiles)

(* A GET_LOCK that answers 1 whoever holds the lock.                       *)
AcquireAlways(l) == TRUE

(* SELECT GET_LOCK(:k, 0): true when the lock was free and is now held.    *)
_acquire_lock(l) == l = 0

(* The scheduler fires the job in instance p: the tick goes on when it     *)
(* got the lock and returns at once when it did not.                       *)
AcquireLock(p) ==
  /\ pc[p] = "idle"
  /\ IF _acquire_lock(lock)
     THEN /\ lock' = p
          /\ pc' = [pc EXCEPT ![p] = "select"]
          /\ calls' = NoCalls
     ELSE UNCHANGED <<lock, pc, calls>>
  /\ UNCHANGED <<adapter, sched, settlement, batch_size, db, rows, prev_state_map, idx, need_contract, hist>>

(* The SELECT and the prev_state_map built from its result.                *)
SelectCandidates(p) ==
  /\ pc[p] = "select"
  /\ LET sel == SelectRows(db, batch_size) IN
       /\ rows' = [rows EXCEPT ![p] = sel]
       /\ prev_state_map' = [prev_state_map EXCEPT ![p] =
            [i \in Records |-> IF i \in Range(sel) THEN db[i].stateCode ELSE NULL]]
       /\ pc' = [pc EXCEPT ![p] = IF sel = <<>> THEN "release" ELSE "mark"]
  /\ calls' = NoCalls
  /\ UNCHANGED <<adapter, sched, settlement, batch_size, db, lock, idx, need_contract, hist>>

(* for r in rows: if r.stateCode != 'I': r.stateCode = 'P'                 *)
MarkedState(st) == IF st # "I" THEN "P" ELSE st

(* The marking of the selected rows and its commit.                        *)
MarkProcessing(p) ==
  /\ pc[p] = "mark"
  /\ db' = [i \in Records |->
              IF i \in Range(rows[p])
              THEN [db[i] EXCEPT !.stateCode = MarkedState(prev_state_map[p][i])]
              ELSE db[i]]
  /\ idx' = [idx EXCEPT ![p] = 1]
  /\ pc' = [pc EXCEPT ![p] = "channel"]
  /\ calls' = NoCalls
  /\ UNCHANGED <<adapter, sched, settlement, batch_size, lock, rows, prev_state_map, need_contract, hist>>

cur(p) == rows[p][idx[p]]

(* The loop goes on to the next row, or ends.                              *)
NextRow(p) ==
  /\ idx' = [idx EXCEPT ![p] = @ + 1]
  /\ need_contract' = [need_contract EXCEPT ![p] = FALSE]
  /\ pc' = [pc EXCEPT ![p] = IF idx[p] + 1 > Len(rows[p]) THEN "release" ELSE "channel"]

(* need_slack without the test of channelId.                              *)
NeedSlackAnyChannel(r) == r.supplierCode /\ r.companyName /\ r.email

(* need_slack without the test of supplierCode.                            *)
NeedSlackNoCode(r) == r.channelId = NULL /\ r.companyName /\ r.email

need_slack_of(r) ==
  r.channelId = NULL /\ r.supplierCode /\ r.companyName /\ r.email

(* need_contract without the test of contractStatus.                      *)
NeedContractAnyStatus(r) == r.channelId # NULL /\ r.email

need_contract_of(r) ==
  r.channelId # NULL /\ (r.contractStatus = NULL \/ r.contractStatus = "E") /\ r.email

(* A failure that lets the loop body go on to step 2-2 for the same row.   *)
RowFailedFallThrough(p, d) ==
  /\ db' = [d EXCEPT ![cur(p)].stateCode = "E"]
  /\ pc' = [pc EXCEPT ![p] = "member"]
  /\ UNCHANGED <<idx, need_contract>>

(* An except clause that ends the loop instead of going on.                *)
RowFailedAbort(p, d) ==
  /\ db' = [d EXCEPT ![cur(p)].stateCode = "E"]
  /\ pc' = [pc EXCEPT ![p] = "release"]
  /\ need_contract' = [need_contract EXCEPT ![p] = FALSE]
  /\ idx' = idx

(* The except clauses of the loop body: the row becomes 'E', the loop      *)
(* goes on.                                                                *)
RowFailed(p, d) ==
  /\ db' = [d EXCEPT ![cur(p)].stateCode = "E"]
  /\ NextRow(p)

ChannelResults == {"ok", "no_id", "raise"}

(* 2-1: need_slack, need_contract and create_slack_channel_only            *)
ChannelStep(p) ==
  /\ pc[p] = "channel"
  /\ LET s == cur(p)
         r == db[s] IN
     IF need_slack_of(r)
     THEN \E res \in ChannelResults :
            /\ calls' = Calls(p, s, {"create_slack_channel_only"})
            /\ IF res = "ok"
               THEN /\ db' = [db EXCEPT ![s].channelId = "C", ![s].stateCode = "A"]
                    /\ hist' = [hist EXCEPT ![s].chan = Inc(@)]
                    /\ need_contract' = [need_contract EXCEPT ![p] = TRUE]
                    /\ pc' = [pc EXCEPT ![p] = "member"]
                    /\ idx' = idx
               ELSE /\ RowFailed(p, db)
                    /\ hist' = hist
     ELSE /\ need_contract' = [need_contract EXCEPT ![p] = need_contract_of(r)]
          /\ pc' = [pc EXCEPT ![p] = "member"]
          /\ calls' = NoCalls
          /\ UNCHANGED <<db, idx, hist>>
  /\ UNCHANGED <<adapter, sched, settlement, batch_size, lock, rows, prev_state_map>>

LookupResults == {"found", "not_found"}
InviteResults == {"ok", "already_in_channel", "error"}

AfterMembership(p) == IF need_contract[p] THEN "contract" ELSE "final"

(* 2-2 with branch (B) left out: a failed lookup never sends a mail.       *)
MembershipBranchNeverMail(uid, prev) == IF uid = "not_found" THEN "A" ELSE "C"

(* 2-2 without the test of prev_state: every failed lookup sends a mail.   *)
MembershipBranchNoGuard(uid, prev) == IF uid = "not_found" THEN "B" ELSE "C"

(* The branch of 2-2 taken: (A) not a member and the row was 'I' when      *)
(* selected, (B) not a member and it was not 'I', (C) a member.            *)
MembershipBranch(uid, prev) ==
  IF uid = "not_found" /\ prev = "I" THEN "A"
  ELSE IF uid = "not_found" /\ prev # "I" THEN "B"
  ELSE "C"

(* 2-2: _lookup_user_id_by_email, the invite mail, conversations_invite    *)
MembershipStep(p) ==
  /\ pc[p] = "member"
  /\ LET s == cur(p)
         r == db[s] IN
     IF ~r.email
     THEN /\ pc' = [pc EXCEPT ![p] = AfterMembership(p)]
          /\ calls' = NoCalls
          /\ UNCHANGED <<db, idx, need_contract, hist>>
     ELSE \E uid \in LookupResults :
            IF MembershipBranch(uid, prev_state_map[p][s]) = "A"
            THEN /\ db' = [db EXCEPT ![s].stateCode = "I"]
                 /\ calls' = Calls(p, s, {"users_lookupByEmail", "users_not_found"})
                 /\ NextRow(p)
                 /\ hist' = hist
            ELSE IF MembershipBranch(uid, prev_state_map[p][s]) = "B"
            THEN \E sent \in BOOLEAN :
                   /\ hist' = [hist EXCEPT ![s].mailCall = Inc(@),
                                           ![s].mailSent = IF sent THEN Inc(@) ELSE @]
                   /\ calls' = Calls(p, s, {"users_lookupByEmail", "users_not_found",
                                           "send_workspace_join_invite_email"}
                                        \cup (IF sent THEN {"notify_invite_mail_sent"} ELSE {}))
                   /\ db' = [db EXCEPT ![s].stateCode = "I"]
                   /\ NextRow(p)
            ELSE /\ IF r.channelId # NULL
                    THEN \E inv \in InviteResults :
                           /\ db' = IF inv = "ok"
                                    THEN [db EXCEPT ![s].stateCode = "A"]
                                    ELSE db
                           /\ calls' = Calls(p, s, {"users_lookupByEmail", "conversations_invite"}
                                \cup (IF inv # "error" THEN {"notify_user_invited_to_channel"} ELSE {}))
                    ELSE /\ db' = db
                         /\ calls' = Calls(p, s, {"users_lookupByEmail"})
                 /\ pc' = [pc EXCEPT ![p] = AfterMembership(p)]
                 /\ UNCHANGED <<idx, need_contract, hist>>
  /\ UNCHANGED <<adapter, sched, settlement, batch_size, lock, rows, prev_state_map>>

(* float(pct) and int(th) of the nullable columns                          *)
InRange(x, lo, hi) == x # NoNum /\ \A v \in x : lo <= v /\ v <= hi
AtLeast(x, lo) == x # NoNum /\ \A v \in x : lo <= v

(* The percent test without its upper limit.                               *)
TemplateANoUpper(r) == AtLeast(r.contractPercent, 0)

TemplateAOk(r) == InRange(r.contractPercent, 0, 100)

TemplateBOk(r) ==
  /\ AtLeast(r.contractThreshold, 0)
  /\ InRange(r.contractPercentUnder, 0, 100)
  /\ InRange(r.contractPercentOver, 0, 100)

(* Steps 2 and 3 alone, the skip flag not looked at.                       *)
ContractDecisionNoSkip(r) ==
  IF ~r.email THEN "error"
  ELSE IF r.contractTemplate = "A" THEN (IF InRange(r.contractPercent, 0, 100) THEN "send" ELSE "error")
  ELSE IF r.contractTemplate = "B" THEN (IF AtLeast(r.contractThreshold, 0) THEN "send" ELSE "error")
  ELSE "error"

(* Steps 1 to 3 of _after_slack_success: "skip", "error" or "send".        *)
ContractDecision(r) ==
  IF r.contractSkip THEN "skip"
  ELSE IF ~r.email THEN "error"
  ELSE IF r.contractTemplate = "A" THEN (IF TemplateAOk(r) THEN "send" ELSE "error")
  ELSE IF r.contractTemplate = "B" THEN (IF TemplateBOk(r) THEN "send" ELSE "error")
  ELSE "error"

(* 2-3: _after_slack_success up to the commit of 'P'.  The three           *)
(* post_message_to_channel calls of the skip branch catch SlackApiError    *)
(* only: any other exception reaches the except clause of the loop.        *)
ContractStep(p) ==
  /\ pc[p] = "contract"
  /\ LET s == cur(p)
         r == db[s]
         dec == ContractDecision(r) IN
     IF dec = "skip"
     THEN \E raised \in BOOLEAN :
            /\ hist' = [hist EXCEPT ![s].skipNote = Inc(@)]
            /\ calls' = Calls(p, s, {"post_message_to_channel"})
            /\ IF raised
               THEN RowFailed(p, [db EXCEPT ![s].contractStatus = "S"])
               ELSE /\ db' = [db EXCEPT ![s].contractStatus = "S"]
                    /\ pc' = [pc EXCEPT ![p] = "final"]
                    /\ UNCHANGED <<idx, need_contract>>
     ELSE IF dec = "error"
     THEN /\ db' = [db EXCEPT ![s].contractStatus = "E"]
          /\ calls' = Calls(p, s, {"notify_contract_failed"})
          /\ pc' = [pc EXCEPT ![p] = "final"]
          /\ UNCHANGED <<idx, need_contract, hist>>
     ELSE /\ db' = [db EXCEPT ![s].contractStatus = "P"]
          /\ calls' = NoCalls
          /\ pc' = [pc EXCEPT ![p] = "dispatch"]
          /\ UNCHANGED <<idx, need_contract, hist>>
  /\ UNCHANGED <<adapter, sched, settlement, batch_size, lock, rows, prev_state_map>>

DispatchResults == {"token_error", "document_error", "ok", "ok_no_id"}

Dispatched(res) == res \in {"ok", "ok_no_id"}

(* Step 5 taking for a success whatever got as far as the document call.  *)
DispatchStatusSentAfterToken(res) == IF res = "token_error" THEN "E" ELSE "A"

(* Step 5 storing 'A' whatever happened.                                   *)
DispatchStatusAlwaysSent(res) == "A"

(* The contractStatus step 5 of _after_slack_success ends with.            *)
DispatchStatus(res) == IF Dispatched(res) THEN "A" ELSE "E"

(* Step 5 of _after_slack_success: issue_access_token, then                *)
(* create_document_from_template, then the status and the notification.    *)
DispatchStep(p) ==
  /\ pc[p] = "dispatch"
  /\ LET s == cur(p) IN
     \E res \in DispatchResults :
       /\ hist' = [hist EXCEPT ![s].doc = IF Dispatched(res) THEN Inc(@) ELSE @]
       /\ calls' = Calls(p, s, {"issue_access_token"}
            \cup (IF res # "token_error" THEN {"create_document_from_template"} ELSE {})
            \cup (IF Dispatched(res) THEN {"notify_contract_sent"} ELSE {"notify_contract_failed"}))
       /\ db' = [db EXCEPT
            ![s].contractStatus = DispatchStatus(res),
            ![s].contractId = IF res = "ok" THEN "D" ELSE @]
  /\ pc' = [pc EXCEPT ![p] = "final"]
  /\ UNCHANGED <<adapter, sched, settlement, batch_size, lock, rows, prev_state_map, idx, need_contract>>

(* 2-4: if s.stateCode == 'P': s.stateCode = 'A'                           *)
FinalState(st) == IF st = "P" THEN "A" ELSE st

Finalize(p) ==
  /\ pc[p] = "final"
  /\ db' = [db EXCEPT ![cur(p)].stateCode = FinalState(@)]
  /\ NextRow(p)
  /\ calls' = NoCalls
  /\ UNCHANGED <<adapter, sched, settlement, batch_size, lock, rows, prev_state_map, hist>>

(* finally: _release_lock(lock_key)                                        *)
ReleaseLock(p) ==
  /\ pc[p] = "release"
  /\ lock' = IF lock = p THEN 0 ELSE lock
  /\ pc' = [pc EXCEPT ![p] = "idle"]
  /\ rows' = [rows EXCEPT ![p] = <<>>]
  /\ prev_state_map' = [prev_state_map EXCEPT ![p] = [i \in Records |-> NULL]]
  /\ idx' = [idx EXCEPT ![p] = 0]
  /\ need_contract' = [need_contract EXCEPT ![p] = FALSE]
  /\ calls' = NoCalls
  /\ UNCHANGED <<adapter, sched, settlement, batch_size, db, hist>>

Next ==
  \E p \in Procs :
    \/ AcquireLock(p)
    \/ SelectCandidates(p)
    \/ MarkProcessing(p)
    \/ ChannelStep(p)
    \/ MembershipStep(p)
    \/ ContractStep(p)
    \/ DispatchStep(p)
    \/ Finalize(p)
    \/ ReleaseLock(p)

Spec == Init /\ [][Next]_vars

(* The same job over rows whose contract parameters vary.                  *)
ContractSpec == InitContract /\ [][Next]_vars

(* The same job over rows with and without the skip flag.                  *)
SkipSpec == InitSkip /\ [][Next]_vars

(* The same job over rows with and without a supplier code, a company name *)
(* and an email.                                                           *)
FieldSpec == InitField /\ [][Next]_vars

(* The scheduler fires the job every 30 seconds in every instance, and a   *)
(* tick that started runs to its end.                                      *)
Tick(p) ==
  \/ AcquireLock(p)
  \/ SelectCandidates(p)
  \/ MarkProcessing(p)
  \/ ChannelStep(p)
  \/ MembershipStep(p)
  \/ ContractStep(p)
  \/ DispatchStep(p)
  \/ Finalize(p)
  \/ ReleaseLock(p)

FairSpec == Init /\ [][Next]_vars /\ \A p \in Procs : WF_vars(Tick(p))

(* The process of instance p is killed inside a tick.  What the tick has   *)
(* committed stays in the table; the session ends, and with it the named   *)
(* lock it held; the locals of the tick are gone.                          *)
Crash(p) ==
  /\ pc[p] # "idle"
  /\ lock' = IF lock = p THEN 0 ELSE lock
  /\ pc' = [pc EXCEPT ![p] = "idle"]
  /\ rows' = [rows EXCEPT ![p] = <<>>]
  /\ prev_state_map' = [prev_state_map EXCEPT ![p] = [i \in Records |-> NULL]]
  /\ idx' = [idx EXCEPT ![p] = 0]
  /\ need_contract' = [need_contract EXCEPT ![p] = FALSE]
  /\ calls' = NoCalls
  /\ UNCHANGED <<adapter, sched, settlement, batch_size, db, hist>>

CrashProfiles == { RowFlat }
InitCrash == InitWith(CrashProfiles)

NextCrash ==
  \/ Next
  \/ \E p \in Procs : Crash(p)

(* The job with instances that may be killed at any point of a tick.       *)
CrashSpec == InitCrash /\ [][NextCrash]_vars

(* GET_LOCK answered 0: the tick of instance p is at the return of line 88.*)
LockDenied(p) ==
  /\ pc[p] = "idle"
  /\ ~_acquire_lock(lock)
  /\ pc' = [pc EXCEPT ![p] = "denied"]
  /\ UNCHANGED <<adapter, sched, settlement, batch_size, db, lock, rows, prev_state_map, idx, need_contract, hist, calls>>

(* A return that runs the finally clause, with a RELEASE_LOCK that frees   *)
(* the lock of another session.                                            *)
ReturnNoLockReleasing(p) ==
  /\ pc[p] = "denied"
  /\ pc' = [pc EXCEPT ![p] = "idle"]
  /\ lock' = 0
  /\ UNCHANGED <<adapter, sched, settlement, batch_size, db, rows, prev_state_map, idx, need_contract, hist, calls>>

(* if not _acquire_lock(lock_key): return  -- before the try, so the       *)
(* finally clause does not run.                                            *)
ReturnNoLock(p) ==
  /\ pc[p] = "denied"
  /\ pc' = [pc EXCEPT ![p] = "idle"]
  /\ UNCHANGED <<adapter, sched, settlement, batch_size, db, lock, rows, prev_state_map, idx, need_contract, hist, calls>>

(* An exception that leaves the function without its finally clause.       *)
StoreErrorNoFinally(p) ==
  /\ pc[p] \in {"select", "mark"}
  /\ pc' = [pc EXCEPT ![p] = "idle"]
  /\ calls' = NoCalls
  /\ UNCHANGED <<adapter, sched, settlement, batch_size, db, lock, rows, prev_state_map, idx, need_contract, hist>>

(* The SELECT or the commit of the marks raises: the outer except clauses  *)
(* roll back, nothing of the marks is committed, and the finally clause    *)
(* follows.                                                                *)
StoreError(p) ==
  /\ pc[p] \in {"select", "mark"}
  /\ pc' = [pc EXCEPT ![p] = "release"]
  /\ calls' = NoCalls
  /\ UNCHANGED <<adapter, sched, settlement, batch_size, db, lock, rows, prev_state_map, idx, need_contract, hist>>

(* A row an earlier tick has finished: channel made, contract sent.        *)
RowReady ==
  [RowFlat EXCEPT !.stateCode = "A", !.channelId = "C",
                  !.contractStatus = "A", !.contractId = "D"]

(* Row 1 is new or finished, the rows after it are finished.               *)
LockProfiles == { RowFlat, RowReady }
InitLock ==
  /\ InitWith(LockProfiles)
  /\ \A i \in Records : i > 1 => db[i] = RowReady

NextLock ==
  \/ Next
  \/ \E p \in Procs : LockDenied(p)
  \/ \E p \in Procs : ReturnNoLock(p)
  \/ \E p \in Procs : StoreError(p)

TickLock(p) ==
  \/ Tick(p)
  \/ LockDenied(p)
  \/ ReturnNoLock(p)
  \/ StoreError(p)

(* The job with the ticks that find the lock taken made visible and with   *)
(* store errors; every instance is fired again and again and a tick that   *)
(* started runs to its end.                                                *)
LockSpec == InitLock /\ [][NextLock]_vars /\ \A p \in Procs : WF_vars(TickLock(p))

(* The values STATE_CODE takes: NULL, approval pending, approved,          *)
(* rejected, deleted, and the five the job writes or reads.                *)
StateCodes == {NULL, "R", "RA", "RR", "D", "P", "A", "E", "I"}

RowInState(st, sid, spw) ==
  [RowFlat EXCEPT !.stateCode = st, !.supplierID = sid, !.supplierPW = spw]

SelectorProfiles ==
  { RowInState(st, TRUE, TRUE) : st \in StateCodes }
    \cup { RowInState("RA", FALSE, TRUE), RowInState("RA", TRUE, FALSE) }

InitSelector == InitWith(SelectorProfiles)

NextSelector ==
  \E p \in Procs :
    \/ AcquireLock(p)
    \/ SelectCandidates(p)
    \/ ReleaseLock(p)

(* The SELECT of a tick over tables with rows in every state.              *)
SelectorSpec == InitSelector /\ [][NextSelector]_vars

-----------------------------------------------------------------------------
(* The commission of make_settlement_excel.                                *)

(* round(x) of Python for x = num / den >= 0: to the nearest integer, a    *)
(* tie to the even one.                                                    *)
round(num, den) ==
  LET q == num \div den
      r == num % den
  IN IF 2 * r < den THEN q
     ELSE IF 2 * r > den THEN q + 1
     ELSE IF q % 2 = 0 THEN q ELSE q + 1

(* The amount written into the test of template B and its two products.    *)
TierAmount == 10000000

(* The commission with the rate of the upper part taken on the whole       *)
(* amount.                                                                 *)
CommissionOverOnTotal(items_total, supplier) ==
  IF supplier.contractTemplate = "A"
  THEN round(items_total * supplier.contractPercent, 100)
  ELSE IF supplier.contractTemplate = "B"
  THEN IF items_total > TierAmount
       THEN round(TierAmount * supplier.contractPercentUnder, 100)
            + round(items_total * supplier.contractPercentOver, 100)
       ELSE round(items_total * supplier.contractPercentUnder, 100)
  ELSE 0

(* commission as the code computes it from items_total and the supplier's  *)
(* contract columns.                                                       *)
commission(items_total, supplier) ==
  IF supplier.contractTemplate = "A"
  THEN round(items_total * supplier.contractPercent, 100)
  ELSE IF supplier.contractTemplate = "B"
  THEN IF items_total > TierAmount
       THEN LET commission_under == round(TierAmount * supplier.contractPercentUnder, 100)
                commission_over == round((items_total - TierAmount) * supplier.contractPercentOver, 100)
            IN commission_under + commission_over
       ELSE round(items_total * supplier.contractPercentUnder, 100)
  ELSE 0

(* Suppliers with a template A or B as the admin form accepts them.        *)
FlatSuppliers ==
  { [ contractTemplate |-> "A", contractPercent |-> pct, contractThreshold |-> 0,
      contractPercentUnder |-> 0, contractPercentOver |-> 0 ] : pct \in {0, 1, 10, 100} }

TieredSuppliers ==
  { [ contractTemplate |-> "B", contractPercent |-> 0, contractThreshold |-> th,
      contractPercentUnder |-> pu, contractPercentOver |-> po ] :
      th \in {5000000, 10000000, 20000000}, pu \in {1, 10}, po \in {1, 20} }

(* Sums of the item amounts of a settlement period.                        *)
ItemTotals == {0, 50, 150, 250, 4000000, 8000000, 10000000, 10000050, 15000000}

InitCommission ==
  /\ batch_size = 1
  /\ db = [i \in Records |-> RowFlat]
  /\ lock = 0
  /\ pc = [p \in Procs |-> "idle"]
  /\ rows = [p \in Procs |-> <<>>]
  /\ prev_state_map = [p \in Procs |-> [i \in Records |-> NULL]]
  /\ idx = [p \in Procs |-> 0]
  /\ need_contract = [p \in Procs |-> FALSE]
  /\ hist = [i \in Records |-> NoHist]
  /\ calls = NoCalls
  /\ settlement \in { [ stage |-> "totals", supplier |-> sup, items_total |-> t, commission |-> 0 ] :
                        sup \in FlatSuppliers \cup TieredSuppliers, t \in ItemTotals }
  /\ adapter = NoAdapter
  /\ sched = NoSched

(* The commission of the sheet is computed from items_total.               *)
MakeSettlement ==
  /\ settlement.stage = "totals"
  /\ settlement' = [settlement EXCEPT
       !.stage = "done",
       !.commission = commission(settlement.items_total, settlement.supplier)]
  /\ UNCHANGED <<adapter, sched, batch_size, db, lock, pc, rows, prev_state_map, idx, need_contract, hist, calls>>

NextCommission == MakeSettlement

CommissionSpec == InitCommission /\ [][NextCommission]_vars

(* Suppliers with every percent at 0, in between and at 100, and a         *)
(* supplier without a template.                                            *)
BoundPercents == { 0, 33, 100 }
BoundSuppliers ==
  { [ contractTemplate |-> "A", contractPercent |-> pct, contractThreshold |-> 0,
      contractPercentUnder |-> 0, contractPercentOver |-> 0 ] : pct \in BoundPercents }
  \cup { [ contractTemplate |-> "B", contractPercent |-> 0, contractThreshold |-> TierAmount,
           contractPercentUnder |-> pu, contractPercentOver |-> po ] :
           pu \in BoundPercents, po \in BoundPercents }
  \cup { [ contractTemplate |-> NULL, contractPercent |-> 0, contractThreshold |-> 0,
           contractPercentUnder |-> 0, contractPercentOver |-> 0 ] }

BoundTotals == { 0, 1, 2, 50, 151, 9999999, 10000000, 10000001, 10000002, 15000050 }

InitBounds ==
  /\ batch_size = 1
  /\ db = [i \in Records |-> RowFlat]
  /\ lock = 0
  /\ pc = [p \in Procs |-> "idle"]
  /\ rows = [p \in Procs |-> <<>>]
  /\ prev_state_map = [p \in Procs |-> [i \in Records |-> NULL]]
  /\ idx = [p \in Procs |-> 0]
  /\ need_contract = [p \in Procs |-> FALSE]
  /\ hist = [i \in Records |-> NoHist]
  /\ calls = NoCalls
  /\ settlement \in { [ stage |-> "totals", supplier |-> sup, items_total |-> t, commission |-> 0 ] :
                        sup \in BoundSuppliers, t \in BoundTotals }
  /\ adapter = NoAdapter
  /\ sched = NoSched

(* The settlement over the whole range of the percents.                    *)
BoundsSpec == InitBounds /\ [][NextCommission]_vars

(* Two callers of process_pending_suppliers with different lock_key        *)
(* arguments: GET_LOCK of one's own key succeeds whatever the other holds, *)
(* and the named lock of the model is not touched.                         *)
AcquireOwnLock(p) ==
  /\ pc[p] = "idle"
  /\ pc' = [pc EXCEPT ![p] = "select"]
  /\ calls' = NoCalls
  /\ UNCHANGED <<adapter, sched, settlement, batch_size, db, lock, rows, prev_state_map, idx,
                 need_contract, hist>>

BypassProfiles == { RowFlat, RowReady }
InitBypass ==
  /\ InitWith(BypassProfiles)
  /\ \A i \in Records : i > 1 => db[i] = RowReady

NextBypass ==
  \E p \in Procs :
    \/ AcquireOwnLock(p)
    \/ SelectCandidates(p)
    \/ MarkProcessing(p)
    \/ ChannelStep(p)
    \/ MembershipStep(p)
    \/ ContractStep(p)
    \/ DispatchStep(p)
    \/ Finalize(p)
    \/ ReleaseLock(p)

(* The job run by instances that do not exclude each other.                *)
BypassSpec == InitBypass /\ [][NextBypass]_vars

(* The Slack adapter functions of slackService.py that retry after a rate  *)
(* limit (HTTP 429).  adapter.log holds the responses of the Slack calls    *)
(* one run of a function has made, adapter.slept the seconds it slept.      *)
AdapterFns == { "_lookup_user_id_by_email", "_invite_admins", "create_slack_channel_only" }

(* Values of the Retry-After header of a 429 response.                      *)
RetryAfterValues == { 0, 1, 2 }

(* The responses of users_lookupByEmail, conversations_invite and           *)
(* conversations_create the functions tell apart.                           *)
AdapterResponses(f) ==
  { [resp |-> "rate_limited", retry_after |-> ra] : ra \in RetryAfterValues }
  \cup { [resp |-> r, retry_after |-> 0] :
           r \in (IF f = "_lookup_user_id_by_email" THEN {"ok", "error"}
                  ELSE IF f = "_invite_admins" THEN {"ok", "already_in_channel", "error"}
                  ELSE {"ok", "name_taken", "error"}) }

(* _sleep_if_rate_limited: time.sleep(max(1, ra)) on a 429 response         *)
_sleep_if_rate_limited(r) == IF r.resp = "rate_limited" THEN Max({1, r.retry_after}) ELSE 0

(* for attempt in range(2)                                                  *)
LoopAttempts == 2

(* What a function does after the response r to its n-th call: it calls     *)
(* again ("calling"), returns or raises.  _lookup_user_id_by_email calls    *)
(* itself after every 429; the loops of the two others end after            *)
(* LoopAttempts calls, _invite_admins by returning and the creation by the  *)
(* RuntimeError of its else clause.                                         *)
AdapterStage(f, n, r) ==
  IF f = "_lookup_user_id_by_email"
  THEN (IF r.resp = "rate_limited" THEN "calling" ELSE "returned")
  ELSE IF f = "_invite_admins"
  THEN (IF r.resp = "rate_limited" THEN (IF n < LoopAttempts THEN "calling" ELSE "returned")
        ELSE IF r.resp = "error" THEN "raised"
        ELSE "returned")
  ELSE (IF r.resp \in {"rate_limited", "name_taken"}
        THEN (IF n < LoopAttempts THEN "calling" ELSE "raised")
        ELSE IF r.resp = "error" THEN "raised"
        ELSE "returned")

AdapterStart ==
  /\ adapter.stage = "idle"
  /\ \E f \in AdapterFns :
       adapter' = [ fn |-> f, stage |-> "calling", log |-> <<>>, slept |-> 0 ]
  /\ UNCHANGED <<sched, settlement, batch_size, db, lock, pc, rows, prev_state_map, idx,
                 need_contract, hist, calls>>

(* One call of the Slack client and what the function makes of the response. *)
AdapterCall ==
  /\ adapter.stage = "calling"
  /\ Len(adapter.log) < MaxAttempts
  /\ \E r \in AdapterResponses(adapter.fn) :
       adapter' = [adapter EXCEPT
         !.log = Append(@, r),
         !.slept = @ + _sleep_if_rate_limited(r),
         !.stage = AdapterStage(adapter.fn, Len(adapter.log) + 1, r)]
  /\ UNCHANGED <<sched, settlement, batch_size, db, lock, pc, rows, prev_state_map, idx,
                 need_contract, hist, calls>>

(* The function has returned or raised: the caller goes on.                 *)
AdapterDone ==
  /\ adapter.stage \in {"returned", "raised"}
  /\ adapter' = NoAdapter
  /\ UNCHANGED <<sched, settlement, batch_size, db, lock, pc, rows, prev_state_map, idx,
                 need_contract, hist, calls>>

InitAdapter ==
  /\ batch_size = 1
  /\ db = [i \in Records |-> RowFlat]
  /\ lock = 0
  /\ pc = [p \in Procs |-> "idle"]
  /\ rows = [p \in Procs |-> <<>>]
  /\ prev_state_map = [p \in Procs |-> [i \in Records |-> NULL]]
  /\ idx = [p \in Procs |-> 0]
  /\ need_contract = [p \in Procs |-> FALSE]
  /\ hist = [i \in Records |-> NoHist]
  /\ calls = NoCalls
  /\ settlement = NoSettlement
  /\ adapter = NoAdapter
  /\ sched = NoSched

NextAdapter == AdapterStart \/ AdapterCall \/ AdapterDone

AdapterSpec == InitAdapter /\ [][NextAdapter]_vars

(* The manual resend of a contract (POST /ajax/contract/resend).           *)

(* Rows with a channel in every contract status; rows in error with the    *)
(* skip flag and with an invalid percent as well.                          *)
RowWithStatus(cs) ==
  [RowFlat EXCEPT !.stateCode = "A", !.channelId = "C", !.contractStatus = cs,
                  !.contractId = IF cs = "A" THEN "D" ELSE NULL]
ResendProfiles ==
  { RowWithStatus(cs) : cs \in {NULL, "P", "A", "S", "E"} }
  \cup { [RowWithStatus("E") EXCEPT !.contractSkip = TRUE],
         [RowWithStatus("E") EXCEPT !.contractPercent = Num(150)] }

(* The seq of a request: none, a row, or a seq no row has.                 *)
ResendSeqs == 0..(NumRecords + 1)

(* A resend that only asks for the row to exist.                           *)
ResendCodeAnyStatus(d, seq) ==
  IF seq = 0 THEN 40001
  ELSE IF seq \notin Records THEN 40400
  ELSE 20000

(* The code of the answer of resend_contract: 20000 when the contract      *)
(* step is run again.                                                      *)
ResendCode(d, seq) ==
  IF seq = 0 THEN 40001
  ELSE IF seq \notin Records THEN 40400
  ELSE IF d[seq].contractStatus # "E" THEN 40002
  ELSE 20000

(* The answer of a resend and the calls it made.                           *)
ResendCalls(seq, made, code) == [ by |-> 0, row |-> seq, made |-> made, code |-> code ]

(* resend_contract: the tests of the request and of the row, then          *)
(* after_slack_success of eformsign_service.py.                            *)
ResendContract ==
  /\ \E seq \in ResendSeqs :
       LET code == ResendCode(db, seq) IN
       IF code # 20000
       THEN /\ calls' = ResendCalls(seq, {}, code)
            /\ UNCHANGED <<db, hist>>
       ELSE LET dec == ContractDecision(db[seq]) IN
            IF dec = "skip"
            THEN /\ db' = [db EXCEPT ![seq].contractStatus = "S"]
                 /\ hist' = [hist EXCEPT ![seq].skipNote = Inc(@)]
                 /\ calls' = ResendCalls(seq, {"post_text"}, code)
            ELSE IF dec = "error"
            THEN /\ db' = [db EXCEPT ![seq].contractStatus = "E"]
                 /\ hist' = hist
                 /\ calls' = ResendCalls(seq, {"notify_contract_failed"}, code)
            ELSE \E res \in DispatchResults :
                   /\ db' = [db EXCEPT
                        ![seq].contractStatus = DispatchStatus(res),
                        ![seq].contractId = IF res = "ok" THEN "D" ELSE @]
                   /\ hist' = [hist EXCEPT ![seq].doc = IF Dispatched(res) THEN Inc(@) ELSE @]
                   /\ calls' = ResendCalls(seq, {"issue_access_token"}
                        \cup (IF res # "token_error" THEN {"create_document_from_template"} ELSE {})
                        \cup (IF Dispatched(res) THEN {"notify_contract_sent"}
                              ELSE {"notify_contract_failed"}), code)
  /\ UNCHANGED <<adapter, sched, settlement, batch_size, lock, pc, rows, prev_state_map, idx,
                 need_contract>>

InitResend == InitWith(ResendProfiles)

NextResend == ResendContract

ResendSpec == InitResend /\ [][NextResend]_vars

(* Rows waiting for the user to join: the channel exists, the state is 'I'. *)
RowAwaiting == [RowFlat EXCEPT !.stateCode = "I", !.channelId = "C"]
RowAwaitingSent ==
  [RowFlat EXCEPT !.stateCode = "I", !.channelId = "C",
                  !.contractStatus = "A", !.contractId = "D"]
AwaitingProfiles == { RowAwaiting, RowAwaitingSent, RowReady }
InitAwaiting ==
  /\ InitWith(AwaitingProfiles)
  /\ db[1] # RowReady
  /\ \A i \in Records : i > 1 => db[i] = RowReady

(* conversations_invite succeeds or answers already_in_channel.            *)
InviteAccepted == { "ok", "already_in_channel" }

(* Step 2-2 when the user has joined the workspace: the lookup finds the   *)
(* user and the invitation to the channel is accepted.                     *)
MembershipFound(p) ==
  /\ pc[p] = "member"
  /\ LET s == cur(p)
         r == db[s] IN
       /\ r.email
       /\ MembershipBranch("found", prev_state_map[p][s]) = "C"
       /\ IF r.channelId # NULL
          THEN \E inv \in InviteAccepted :
                 /\ db' = IF inv = "ok"
                          THEN [db EXCEPT ![s].stateCode = "A"]
                          ELSE db
                 /\ calls' = Calls(p, s, {"users_lookupByEmail", "conversations_invite",
                                         "notify_user_invited_to_channel"})
          ELSE /\ db' = db
               /\ calls' = Calls(p, s, {"users_lookupByEmail"})
       /\ pc' = [pc EXCEPT ![p] = AfterMembership(p)]
       /\ UNCHANGED <<idx, need_contract, hist>>
  /\ UNCHANGED <<adapter, sched, settlement, batch_size, lock, rows, prev_state_map>>

TickAwaiting(p) ==
  \/ AcquireLock(p)
  \/ SelectCandidates(p)
  \/ MarkProcessing(p)
  \/ ChannelStep(p)
  \/ MembershipFound(p)
  \/ ContractStep(p)
  \/ DispatchStep(p)
  \/ Finalize(p)
  \/ ReleaseLock(p)

NextAwaiting == \E p \in Procs : TickAwaiting(p)

(* The job over a row in 'I' whose user has joined; every instance is      *)
(* fired again and again and a tick that started runs to its end.          *)
AwaitingSpec ==
  InitAwaiting /\ [][NextAwaiting]_vars /\ \A p \in Procs : WF_vars(TickAwaiting(p))

(* scheduler.py in one process.  sched._scheduler is the module global (0  *)
(* for None, else the scheduler it holds), sched.running the schedulers    *)
(* started, sched.jobs[s][j] how often job id j is in scheduler s,         *)
(* sched.inst[s][j] the instances of job j scheduler s is running.         *)
SchedJobs ==
  { "supplier_slack_job", "settlement_weekly_job", "settlement_monthly_job",
    "settlement_biweekly_job" }

(* The schedulers the calls of start_scheduler can make, one per call.     *)
Schedulers == 1..MaxStarts

(* add_job(..., max_instances=1)                                           *)
max_instances == 1

(* A start that never takes a scheduler for started.                       *)
StartGuardNever(s) == FALSE

(* if _scheduler and _scheduler.running                                    *)
StartGuard(s) == s._scheduler # 0 /\ s._scheduler \in s.running

(* if app.debug and os.environ.get("WERKZEUG_RUN_MAIN") != "true"          *)
ReloaderParent(s) == s.debug /\ ~s.run_main

(* One call of start_scheduler(app); the calls come one after the other.   *)
StartScheduler ==
  /\ sched.stage = "up"
  /\ sched.starts < MaxStarts
  /\ LET new == sched.starts + 1 IN
       sched' =
         IF StartGuard(sched) \/ ReloaderParent(sched)
         THEN [sched EXCEPT !.starts = new]
         ELSE [sched EXCEPT
                 !.starts = new,
                 !.jobs[new] = [j \in SchedJobs |-> 1],
                 !.running = @ \cup {new},
                 !._scheduler = new]
  /\ UNCHANGED <<adapter, settlement, batch_size, db, lock, pc, rows, prev_state_map, idx,
                 need_contract, hist, calls>>

(* The trigger of job j fires in scheduler s: an instance is started       *)
(* unless max_instances of them are running.                               *)
FireJob(s, j) ==
  /\ sched.stage = "up"
  /\ s \in sched.running
  /\ sched.jobs[s][j] > 0
  /\ sched.inst[s][j] < max_instances
  /\ sched' = [sched EXCEPT !.inst[s][j] = @ + 1]
  /\ UNCHANGED <<adapter, settlement, batch_size, db, lock, pc, rows, prev_state_map, idx,
                 need_contract, hist, calls>>

(* An instance of job j ends.                                              *)
JobDone(s, j) ==
  /\ sched.stage = "up"
  /\ sched.inst[s][j] > 0
  /\ sched' = [sched EXCEPT !.inst[s][j] = @ - 1]
  /\ UNCHANGED <<adapter, settlement, batch_size, db, lock, pc, rows, prev_state_map, idx,
                 need_contract, hist, calls>>

InitSched ==
  /\ batch_size = 1
  /\ db = [i \in Records |-> RowFlat]
  /\ lock = 0
  /\ pc = [p \in Procs |-> "idle"]
  /\ rows = [p \in Procs |-> <<>>]
  /\ prev_state_map = [p \in Procs |-> [i \in Records |-> NULL]]
  /\ idx = [p \in Procs |-> 0]
  /\ need_contract = [p \in Procs |-> FALSE]
  /\ hist = [i \in Records |-> NoHist]
  /\ calls = NoCalls
  /\ settlement = NoSettlement
  /\ adapter = NoAdapter
  /\ sched \in { [ stage |-> "up", debug |-> d, run_main |-> r, _scheduler |-> 0,
                   running |-> {}, starts |-> 0,
                   jobs |-> [s \in Schedulers |-> [j \in SchedJobs |-> 0]],
                   inst |-> [s \in Schedulers |-> [j \in SchedJobs |-> 0]] ] :
                 d \in BOOLEAN, r \in BOOLEAN }

NextSched ==
  \/ StartScheduler
  \/ \E s \in Schedulers, j \in SchedJobs : FireJob(s, j)
  \/ \E s \in Schedulers, j \in SchedJobs : JobDone(s, j)

SchedSpec == InitSched /\ [][NextSched]_vars
-----------------------------------------------------------------------------
(* Properties.                                                             *)

Active(p) == pc[p] # "idle"
LoopPcs == {"channel", "member", "contract", "dispatch", "final"}
DispatcherCalls == {"issue_access_token", "create_document_from_template"}

(* C1: idempotent invite.  When a row was 'I' at selection and the lookup  *)
(* of that tick finds no user, the step sends no invite mail, leaves the   *)
(* row's count of invite mails as it was and sets the row back to 'I'; no  *)
(* row ever gets more than one invite mail.                                *)
C1_IdempotentInvite ==
  /\ [](\A i \in Records : hist[i].mailCall <= 1)
  /\ [][\A p \in Procs :
         (/\ pc[p] = "member"
          /\ prev_state_map[p][cur(p)] = "I"
          /\ calls'.by = p
          /\ "users_not_found" \in calls'.made)
         => /\ "send_workspace_join_invite_email" \notin calls'.made
            /\ hist'[cur(p)].mailCall = hist[cur(p)].mailCall
            /\ db'[cur(p)].stateCode = "I"]_vars

(* A row that got its invite mail in an earlier tick has just been looked  *)
(* up again, and not found.                                                *)
C1_Witness ==
  /\ calls.by # 0
  /\ "users_not_found" \in calls.made
  /\ prev_state_map[calls.by][calls.row] = "I"
  /\ hist[calls.row].mailCall = 1
  /\ db[calls.row].stateCode = "I"

(* C2: at most one concurrent tick.  At no time are two instances inside   *)
(* a tick, the instance inside a tick is the holder of the lock, and all   *)
(* collaborator calls and row changes are made by that holder.             *)
C2_AtMostOneTick ==
  /\ \A p, q \in Procs : (Active(p) /\ Active(q)) => p = q
  /\ \A p \in Procs : Active(p) <=> lock = p
  /\ calls.by # 0 => (lock = calls.by \/ lock = 0)

(* One instance is in the middle of its loop, calling collaborators,       *)
(* while the other is not in a tick.                                       *)
C2_Witness ==
  \E p, q \in Procs :
    /\ p # q
    /\ pc[p] \in LoopPcs
    /\ calls.by = p
    /\ calls.made # {}
    /\ ~Active(q)

(* C3: state graph closure.  Every change of a row's stateCode is an edge  *)
(* of the graph: NULL, 'I' or 'RA' to 'P' at selection, and 'P' to one of  *)
(* 'A', 'I', 'E'.                                                          *)
C3_Edge(a, b) ==
  \/ a \in {NULL, "I", "RA"} /\ b = "P"
  \/ a = "P" /\ b \in {"A", "I", "E"}

C3_StateGraphClosure ==
  [][\A i \in Records :
       db'[i].stateCode # db[i].stateCode
       => C3_Edge(db[i].stateCode, db'[i].stateCode)]_vars

(* C4: no duplicate contract sends.  create_document_from_template         *)
(* succeeds at most once for a row.                                        *)
C4_NoDuplicateContract == \A i \in Records : hist[i].doc <= 1

(* A row whose contract was sent, and which stayed 'I', is in the loop of  *)
(* a later tick.                                                           *)
C4_Witness ==
  \E p \in Procs :
    /\ pc[p] = "final"
    /\ prev_state_map[p][cur(p)] = "I"
    /\ hist[cur(p)].doc = 1
    /\ db[cur(p)].contractStatus = "A"
    /\ ~need_contract[p]

(* C5: channelId is write-once.  Once a row has a channelId, no step       *)
(* changes it and no step calls create_slack_channel_only for that row;    *)
(* a channelId is assigned at most once per row.                           *)
C5_ChannelWriteOnce ==
  /\ [](\A i \in Records : hist[i].chan <= 1)
  /\ [][\A i \in Records :
         db[i].channelId # NULL
         => /\ db'[i].channelId = db[i].channelId
            /\ ~(calls'.row = i /\ "create_slack_channel_only" \in calls'.made /\ calls' # calls)]_vars

(* A row that has its channel since an earlier tick has passed step 2-1    *)
(* of a later tick.                                                        *)
C5_Witness ==
  \E p \in Procs :
    /\ pc[p] = "member"
    /\ prev_state_map[p][cur(p)] = "I"
    /\ db[cur(p)].channelId # NULL
    /\ hist[cur(p)].chan = 1

(* The percent or amount of a nullable column is missing or out of range.  *)
C6_Outside(x, lo, hi) == x = NoNum \/ \E v \in x : v < lo \/ v > hi
C6_Below(x, lo) == x = NoNum \/ \E v \in x : v < lo

C6_InvalidTemplate(r) ==
  \/ r.contractTemplate = "A" /\ C6_Outside(r.contractPercent, 0, 100)
  \/ /\ r.contractTemplate = "B"
     /\ \/ C6_Below(r.contractThreshold, 0)
        \/ C6_Outside(r.contractPercentUnder, 0, 100)
        \/ C6_Outside(r.contractPercentOver, 0, 100)

(* What the validation does with an invalid template: 'E', a failure       *)
(* notice, no dispatch.                                                    *)
C6_Rejected(p) ==
  /\ db'[cur(p)].contractStatus = "E"
  /\ "notify_contract_failed" \in calls'.made
  /\ calls'.made \cap DispatcherCalls = {}
  /\ pc'[p] # "dispatch"

(* C6 as claimed: the contract step of every row whose template is invalid *)
(* sets contractStatus 'E', sends the failure notice and calls neither     *)
(* issue_access_token nor create_document_from_template.                   *)
C6_ValidationRejects ==
  [][\A p \in Procs :
       (pc[p] = "contract" /\ pc'[p] # "contract" /\ C6_InvalidTemplate(db[cur(p)]))
       => C6_Rejected(p)]_vars

(* C6 as amended: the same for every row whose skip flag is not set; the   *)
(* dispatcher is called for no row with an invalid template, skip flag or  *)
(* not.                                                                    *)
C6_ValidationRejectsUnlessSkipped ==
  /\ [](\A p \in Procs : pc[p] = "dispatch" => ~C6_InvalidTemplate(db[cur(p)]))
  /\ [](calls.row # 0 /\ C6_InvalidTemplate(db[calls.row])
          => calls.made \cap DispatcherCalls = {})
  /\ [][\A p \in Procs :
         (/\ pc[p] = "contract" /\ pc'[p] # "contract"
          /\ C6_InvalidTemplate(db[cur(p)])
          /\ ~db[cur(p)].contractSkip)
         => C6_Rejected(p)]_vars

(* The contract step has just rejected a template A of 150 percent.        *)
C6_Witness ==
  \E p \in Procs :
    /\ pc[p] = "final"
    /\ calls.by = p
    /\ "notify_contract_failed" \in calls.made
    /\ db[cur(p)].contractTemplate = "A"
    /\ db[cur(p)].contractPercent = Num(150)
    /\ ~db[cur(p)].contractSkip
    /\ db[cur(p)].contractStatus = "E"

(* C7: contractStatus is 'A' (sent) only for a row for which               *)
(* create_document_from_template has succeeded.                            *)
C7_SentOnlyAfterDispatch ==
  \A i \in Records : db[i].contractStatus = "A" => hist[i].doc >= 1

(* The dispatch of a row has just succeeded.                               *)
C7_Witness ==
  /\ calls.row # 0
  /\ "notify_contract_sent" \in calls.made
  /\ db[calls.row].contractStatus = "A"

(* C8: a row with the skip flag never has contractStatus 'A', no           *)
(* dispatcher call is made for it and no document is created for it.       *)
C8_SkippedNeverSent ==
  \A i \in Records :
    db[i].contractSkip
    => /\ db[i].contractStatus # "A"
       /\ hist[i].doc = 0
       /\ \A p \in Procs : pc[p] = "dispatch" => cur(p) # i
       /\ calls.row = i => calls.made \cap DispatcherCalls = {}

(* The contract step has run for a row with the skip flag.                 *)
C8_Witness ==
  \E p \in Procs :
    /\ pc[p] = "final"
    /\ calls.by = p
    /\ "post_message_to_channel" \in calls.made
    /\ db[cur(p)].contractSkip
    /\ db[cur(p)].contractStatus = "S"
    /\ hist[cur(p)].skipNote = 1

(* C9: forward-only partial failure.  A step of the loop changes no row    *)
(* but the one the loop is at; a failed channel creation makes that row    *)
(* 'E'; after a step that makes its row 'E' the loop goes on with the next *)
(* row; and when the loop ends it has gone through every selected row and  *)
(* none is left 'P'.                                                       *)
C9_ForwardOnly ==
  /\ [](\A p \in Procs :
         (pc[p] = "release" /\ rows[p] # <<>>)
         => /\ idx[p] = Len(rows[p]) + 1
            /\ \A i \in Range(rows[p]) : db[i].stateCode # "P")
  /\ [][\A p \in Procs :
         pc[p] \in LoopPcs
         => /\ \A j \in Records \ {cur(p)} : db'[j] = db[j]
            /\ (/\ pc[p] = "channel"
                /\ "create_slack_channel_only" \in calls'.made
                /\ db'[cur(p)].channelId = NULL)
               => db'[cur(p)].stateCode = "E"
            /\ (db'[cur(p)].stateCode = "E" /\ db[cur(p)].stateCode # "E")
               => /\ idx'[p] = idx[p] + 1
                  /\ pc'[p] = IF idx[p] < Len(rows[p]) THEN "channel" ELSE "release"]_vars

(* A tick over two rows has ended: the channel creation of the first       *)
(* failed, the second got its channel.                                     *)
C9_Witness ==
  \E p \in Procs :
    /\ pc[p] = "release"
    /\ Len(rows[p]) = 2
    /\ db[rows[p][1]].stateCode = "E"
    /\ db[rows[p][1]].channelId = NULL
    /\ db[rows[p][2]].channelId # NULL
    /\ db[rows[p][2]].stateCode \in {"A", "I"}

Selected(i) == \E p \in Procs : i \in Range(rows[p])

(* C10 as claimed: starvation freedom.  Under fair ticks every row that    *)
(* is eligible is eventually selected.                                     *)
C10_StarvationFree ==
  \A i \in Records : base_target(db[i]) ~> Selected(i)

(* C10 as amended: every SELECT returns each eligible row that has fewer   *)
(* than batch_size eligible rows of smaller seq.                           *)
C10_SelectedUnlessBatchFull ==
  [][\A p \in Procs :
       (pc[p] = "select" /\ pc'[p] # "select")
       => \A i \in Records :
            (/\ base_target(db[i])
             /\ Cardinality({ j \in Records : j < i /\ base_target(db[j]) }) < batch_size)
            => i \in Range(rows'[p])]_vars

(* A SELECT has passed over row 1, which is no longer eligible, and        *)
(* returned a row of larger seq.                                           *)
C10_Witness ==
  \E p \in Procs :
    /\ pc[p] = "mark"
    /\ ~base_target(db[1])
    /\ \E i \in Range(rows[p]) : i > 1

(* A row no running tick has selected.                                     *)
Orphan(i) == \A p \in Procs : i \notin Range(rows[p])

(* C11: crash recovery.  A row left 'P' by a tick that was killed before   *)
(* it resolved the row's state is eligible for the SELECT of a later tick. *)
C11_CrashRecovery ==
  \A i \in Records :
    (db[i].stateCode = "P" /\ Orphan(i)) => base_target(db[i])

(* C12: no automatic re-dispatch from Error.  No step of a tick calls      *)
(* issue_access_token or create_document_from_template for a row whose     *)
(* contractStatus is 'E', and the contract step of such a row does not go  *)
(* on to the dispatch.                                                     *)
C12_NoRedispatchFromError ==
  [][\A p \in Procs :
       /\ (pc[p] = "contract" /\ db[cur(p)].contractStatus = "E")
          => pc'[p] # "dispatch"
       /\ (calls' # calls /\ calls'.by = p /\ calls'.made \cap DispatcherCalls # {})
          => db[calls'.row].contractStatus # "E"]_vars

(* C13: lock contention is a no-op.  The tick of an instance that finds    *)
(* the lock taken changes nothing but its own position: no row, no         *)
(* selection, no collaborator call, and the lock stays with its holder;    *)
(* from there the tick only returns, again changing nothing else.          *)
C13_ContentionNoOp ==
  [][\A p \in Procs :
       /\ (pc[p] = "idle" /\ pc'[p] = "denied")
          => /\ lock # 0 /\ lock # p
             /\ UNCHANGED <<db, lock, rows, prev_state_map, hist, calls>>
       /\ pc[p] = "denied"
          => /\ pc'[p] \in {"denied", "idle"}
             /\ rows'[p] = <<>>
             /\ calls'.by # p
             /\ lock' # p
             /\ pc'[p] = "idle"
                => UNCHANGED <<db, lock, rows, prev_state_map, hist, calls>>]_vars

(* An instance has found the lock taken by another that is in its loop.    *)
C13_Witness ==
  \E p, q \in Procs :
    /\ pc[p] = "denied"
    /\ lock = q
    /\ pc[q] \in LoopPcs
    /\ calls.by = q

(* C14: lock release.  A tick that holds the lock ends only by releasing   *)
(* it, and every tick that holds the lock does release it: after an empty  *)
(* SELECT, after the loop, after rows that failed, after a store error.    *)
C14_LockReleased ==
  /\ [][\A p \in Procs :
         (pc[p] \notin {"idle", "denied"} /\ pc'[p] = "idle")
         => (lock = p /\ lock' = 0)]_vars
  /\ \A p \in Procs : (lock = p) ~> (lock = 0)

(* A tick in which a row failed has ended and the lock is free.            *)
C14_Witness ==
  /\ lock = 0
  /\ \A p \in Procs : pc[p] = "idle"
  /\ \E i \in Records : db[i].stateCode = "E"

(* Eligible as the selector is described: no state yet, waiting for the    *)
(* signup, or approved with both credentials.                              *)
C15_Eligible(r) ==
  \/ r.stateCode = NULL
  \/ r.stateCode = "I"
  \/ (r.stateCode = "RA" /\ r.supplierID /\ r.supplierPW)

C15_EligibleIds == { i \in Records : C15_Eligible(db[i]) }

C16_MarkBeforeWork ==
  \A p \in Procs :
    (pc[p] = "channel" /\ idx[p] = 1)
    => \A i \in Range(rows[p]) : db[i].stateCode = "P"

(* x = num / den >= 0 rounded to the nearest integer, a tie upwards.       *)
HalfUp(num, den) ==
  (num \div den) + (IF 2 * (num % den) >= den THEN 1 ELSE 0)

Settled == settlement.stage = "done"

(* C17: commission marginal split.  For a template B and items_total above *)
(* the template's threshold the commission is the 'under' percent of the   *)
(* threshold plus the 'over' percent of the excess, each rounded half-up.  *)
C17_MarginalSplit ==
  (/\ Settled
   /\ settlement.supplier.contractTemplate = "B"
   /\ settlement.items_total > settlement.supplier.contractThreshold)
  => settlement.commission
       = HalfUp(settlement.supplier.contractThreshold * settlement.supplier.contractPercentUnder, 100)
         + HalfUp((settlement.items_total - settlement.supplier.contractThreshold)
                    * settlement.supplier.contractPercentOver, 100)

(* The template A with the 'under' percent of a template B.               *)
FlatOfUnder(supplier) ==
  [supplier EXCEPT !.contractTemplate = "A", !.contractPercent = supplier.contractPercentUnder]

(* C18: commission boundary.  For a template B and items_total up to the   *)
(* template's threshold, the threshold itself included, the commission is  *)
(* that of the template A with the 'under' percent on the same             *)
(* items_total.                                                            *)
C18_Boundary ==
  (/\ Settled
   /\ settlement.supplier.contractTemplate = "B"
   /\ settlement.items_total <= settlement.supplier.contractThreshold)
  => settlement.commission
       = commission(settlement.items_total, FlatOfUnder(settlement.supplier))

(* C19: half-up rounding.  For a template A the commission is the percent  *)
(* of items_total rounded half-up: a fraction of exactly .5 goes up.       *)
C19_HalfUp ==
  (Settled /\ settlement.supplier.contractTemplate = "A")
  => settlement.commission
       = HalfUp(settlement.items_total * settlement.supplier.contractPercent, 100)

(* C20: membership found leads to Ready.  After a membership step whose    *)
(* lookup finds the user and whose conversations_invite succeeds or        *)
(* answers already_in_channel, the row is 'A', or 'P' until the            *)
(* finalization; the contract step does not change the state, and the      *)
(* finalization leaves the row 'A'.                                        *)
C20_FoundLeadsToReady ==
  [][\A p \in Procs :
       /\ (/\ pc[p] = "member"
           /\ calls'.by = p
           /\ "notify_user_invited_to_channel" \in calls'.made)
          => db'[cur(p)].stateCode \in {"A", "P"}
       /\ (pc[p] \in {"contract", "dispatch"} /\ pc'[p] \in {"dispatch", "final"})
          => db'[cur(p)].stateCode = db[cur(p)].stateCode
       /\ (pc[p] = "final" /\ idx'[p] = idx[p] + 1 /\ db[cur(p)].stateCode \in {"A", "P"})
          => db'[cur(p)].stateCode = "A"]_vars
(* C21 as stated: the contract step runs for a row only when its channelId *)
(* is set, its email is present and its contractStatus is NULL or 'E'.     *)
C21_ContractGuard ==
  \A p \in Procs :
    pc[p] = "contract" =>
      /\ db[cur(p)].channelId # NULL
      /\ db[cur(p)].email
      /\ db[cur(p)].contractStatus \in {NULL, "E"}

(* C21: the contract step runs for a row only when its channelId is set    *)
(* and its email is present, and then its contractStatus is NULL or 'E'    *)
(* unless the channel of the row was created in this tick.                 *)
C21_ContractGuardUnlessCreated ==
  \A p \in Procs :
    pc[p] = "contract" =>
      /\ db[cur(p)].channelId # NULL
      /\ db[cur(p)].email
      /\ \/ db[cur(p)].contractStatus \in {NULL, "E"}
         \/ /\ prev_state_map[p][cur(p)] # "I"
            /\ hist[cur(p)].chan > 0

C21_Witness ==
  \E p \in Procs :
    /\ pc[p] = "contract"
    /\ db[cur(p)].contractStatus = "P"
    /\ hist[cur(p)].chan = 1

(* C22: a row whose stateCode is 'I' has had the invite mail sent with     *)
(* success, exactly once.                                                  *)
C22_AwaitingImpliesSent ==
  \A i \in Records : db[i].stateCode = "I" => hist[i].mailSent = 1

(* C23: when a row was not 'I' at selection and the lookup finds no user,  *)
(* the step makes exactly one invite mail call for it, stores 'I' and      *)
(* goes on to the next row: the contract step does not run for the row in  *)
(* this tick, even when need_contract was set by the channel creation.     *)
C23_FirstTimeNotFound ==
  [][\A p \in Procs :
       (/\ pc[p] = "member"
        /\ prev_state_map[p][cur(p)] # "I"
        /\ calls'.by = p
        /\ "users_not_found" \in calls'.made)
       => /\ "send_workspace_join_invite_email" \in calls'.made
          /\ hist'[cur(p)].mailCall = hist[cur(p)].mailCall + 1
          /\ hist'[cur(p)].mailCall = 1
          /\ db'[cur(p)].stateCode = "I"
          /\ idx'[p] = idx[p] + 1
          /\ pc'[p] \in {"channel", "release"}
          /\ db'[cur(p)].contractStatus = db[cur(p)].contractStatus
          /\ hist'[cur(p)].doc = hist[cur(p)].doc
          /\ hist'[cur(p)].skipNote = hist[cur(p)].skipNote]_vars

C23_Witness ==
  \E p \in Procs :
    /\ idx[p] > 1
    /\ calls.by = p
    /\ calls.row = rows[p][idx[p] - 1]
    /\ "send_workspace_join_invite_email" \in calls.made
    /\ db[calls.row].stateCode = "I"
    /\ db[calls.row].channelId # NULL
    /\ hist[calls.row].chan = 1
    /\ hist[calls.row].mailCall = 1

(* The loop body of p takes its step 2-1 for the row it is at.             *)
C24_ChannelStepTaken(p) ==
  /\ pc[p] = "channel"
  /\ pc'[p] # "channel" \/ idx'[p] # idx[p]

C24_CreateCalled(p) ==
  /\ calls'.by = p
  /\ calls'.row = cur(p)
  /\ "create_slack_channel_only" \in calls'.made

(* A successful creation stores the channel id and 'A'.                    *)
C24_Success(p) ==
  hist'[cur(p)].chan # hist[cur(p)].chan =>
    /\ db'[cur(p)].channelId # NULL
    /\ db'[cur(p)].stateCode = "A"

(* C24 as stated: create_slack_channel_only is called for a row exactly    *)
(* when it has no channelId and both companyName and email are present;    *)
(* on success the row gets its channelId and stateCode 'A'.                *)
C24_ChannelPrecondition ==
  [][\A p \in Procs :
       C24_ChannelStepTaken(p) =>
         /\ C24_CreateCalled(p) <=>
              (/\ db[cur(p)].channelId = NULL
               /\ db[cur(p)].companyName
               /\ db[cur(p)].email)
         /\ C24_Success(p)]_vars

(* C24: create_slack_channel_only is called for a row exactly when it has  *)
(* no channelId and supplierCode, companyName and email are all present;   *)
(* on success the row gets its channelId and stateCode 'A'.                *)
C24_ChannelPreconditionWithCode ==
  [][\A p \in Procs :
       C24_ChannelStepTaken(p) =>
         /\ C24_CreateCalled(p) <=>
              (/\ db[cur(p)].channelId = NULL
               /\ db[cur(p)].supplierCode
               /\ db[cur(p)].companyName
               /\ db[cur(p)].email)
         /\ C24_Success(p)]_vars

C24_Witness ==
  \E p \in Procs :
    /\ pc[p] = "member"
    /\ calls = NoCalls
    /\ hist[cur(p)].chan = 0
    /\ ~db[cur(p)].supplierCode
    /\ db[cur(p)].companyName
    /\ db[cur(p)].email
    /\ db[cur(p)].channelId = NULL

(* C25: when create_slack_channel_only returns no channel id or raises,    *)
(* the row becomes 'E', its channelId stays NULL and the loop goes on to   *)
(* the next row: no lookup, invite mail, channel invite or contract step   *)
(* is made for the row in this tick.                                       *)
C25_ChannelFailure ==
  [][\A p \in Procs :
       (/\ pc[p] = "channel"
        /\ calls'.by = p
        /\ "create_slack_channel_only" \in calls'.made
        /\ hist'[cur(p)].chan = hist[cur(p)].chan)
       => /\ db'[cur(p)].stateCode = "E"
          /\ db'[cur(p)].channelId = NULL
          /\ db'[cur(p)].contractStatus = db[cur(p)].contractStatus
          /\ calls'.made = {"create_slack_channel_only"}
          /\ hist'[cur(p)] = hist[cur(p)]
          /\ idx'[p] = idx[p] + 1
          /\ pc'[p] \in {"channel", "release"}
          /\ \A k \in 1..Len(rows[p]) : k > idx[p] => rows[p][k] # cur(p)]_vars

C25_Witness ==
  \E p \in Procs :
    /\ idx[p] > 1
    /\ calls = Calls(p, rows[p][idx[p] - 1], {"create_slack_channel_only"})
    /\ db[calls.row].stateCode = "E"
    /\ db[calls.row].channelId = NULL
    /\ hist[calls.row] = NoHist

(* C26: a selected row without an email ends the tick with stateCode 'E',  *)
(* and is then no target of a later selection.                             *)
C26_MissingEmailIsError ==
  \A p \in Procs :
    pc[p] = "release" =>
      \A k \in 1..Len(rows[p]) :
        ~db[rows[p][k]].email =>
          /\ db[rows[p][k]].stateCode = "E"
          /\ ~base_target(db[rows[p][k]])

C28_Finalization ==
  /\ [](\A p \in Procs :
          pc[p] = "release" =>
            /\ \A i \in Records : db[i].stateCode # "P"
            /\ \A k \in 1..Len(rows[p]) : db[rows[p][k]].stateCode \in {"A", "I", "E"})
  /\ [][\A p \in Procs :
          (/\ pc[p] = "final"
           /\ idx'[p] = idx[p] + 1
           /\ db[cur(p)].stateCode = MarkedState(prev_state_map[p][cur(p)]))
          => db'[cur(p)].stateCode = "A"]_vars

(* C29: the skip path.  When the contract step runs for a row with the     *)
(* skip flag, contractStatus becomes 'S' and neither issue_access_token    *)
(* nor create_document_from_template is called; and over all ticks the     *)
(* skip notice is sent at most once for a row.                             *)
C29_SkipPath ==
  /\ [](\A i \in Records : hist[i].skipNote <= 1)
  /\ [][\A p \in Procs :
          (pc[p] = "contract" /\ db[cur(p)].contractSkip /\ calls'.by = p)
          => /\ db'[cur(p)].contractStatus = "S"
             /\ calls'.made \cap DispatcherCalls = {}
             /\ pc'[p] # "dispatch"
             /\ hist'[cur(p)].doc = hist[cur(p)].doc
             /\ hist[cur(p)].skipNote = 0
             /\ hist'[cur(p)].skipNote = 1]_vars

C29_Witness ==
  /\ \A p \in Procs : pc[p] = "idle"
  /\ \E i \in Records :
       /\ db[i].contractSkip
       /\ db[i].contractStatus = "S"
       /\ db[i].stateCode = "A"
       /\ hist[i].skipNote = 1
       /\ hist[i].doc = 0

C30_Unchanged(p, field) == db'[cur(p)][field] = db[cur(p)][field]

(* C30: a notice never escalates.  Whatever becomes of the send, a step    *)
(* that sends a notice ends with the stateCode and the contractStatus of   *)
(* the successful send: the invite mail notice with 'I', the channel       *)
(* invite notice with 'A' or the stateCode as it was, the contract notices *)
(* with contractStatus 'A' or 'E' and the stateCode as it was, the skip    *)
(* notice with contractStatus 'S' and the stateCode as it was.             *)
C30_NoticeNeverEscalates ==
  [][\A p \in Procs :
       (calls'.by = p /\ pc[p] \in LoopPcs) =>
         /\ "notify_invite_mail_sent" \in calls'.made =>
              db'[cur(p)].stateCode = "I" /\ C30_Unchanged(p, "contractStatus")
         /\ "notify_user_invited_to_channel" \in calls'.made =>
              /\ db'[cur(p)].stateCode \in {"A", db[cur(p)].stateCode}
              /\ C30_Unchanged(p, "contractStatus")
         /\ "notify_contract_sent" \in calls'.made =>
              db'[cur(p)].contractStatus = "A" /\ C30_Unchanged(p, "stateCode")
         /\ "notify_contract_failed" \in calls'.made =>
              db'[cur(p)].contractStatus = "E" /\ C30_Unchanged(p, "stateCode")
         /\ "post_message_to_channel" \in calls'.made =>
              db'[cur(p)].contractStatus = "S" /\ C30_Unchanged(p, "stateCode")]_vars

(* C31: no row is processed by two ticks that run at the same time, even   *)
(* when the instances do not exclude each other: the rows two running      *)
(* loops selected are disjoint.                                            *)
C31_NoDoubleClaim ==
  \A p, q \in Procs :
    (p # q /\ pc[p] \in LoopPcs /\ pc[q] \in LoopPcs)
      => Range(rows[p]) \cap Range(rows[q]) = {}

(* C32: a tick changes no row that its SELECT did not return and makes no  *)
(* call for such a row; and a row whose stateCode is 'E' or 'A' when a     *)
(* tick selects is not among the rows selected, so later ticks leave it    *)
(* as it is.                                                               *)
C32_ErrorIsTerminal ==
  [][/\ \A i \in Records :
          (db'[i] # db[i] \/ hist'[i] # hist[i])
            => \E p \in Procs : pc[p] \in LoopPcs \cup {"mark"} /\ i \in Range(rows[p])
     /\ calls'.made # {} => calls'.row \in Range(rows[calls'.by])
     /\ \A p \in Procs :
          pc[p] = "select" /\ pc'[p] # "select"
            => \A i \in Range(rows'[p]) : db[i].stateCode \notin {"E", "A"}]_vars

C32_Witness ==
  \E p \in Procs :
    /\ pc[p] = "release"
    /\ rows[p] = <<>>
    /\ \E i \in Records :
         /\ db[i].stateCode = "E"
         /\ i \notin Range(rows[p])
    /\ \E i \in Records :
         /\ db[i].stateCode = "A"
         /\ hist[i].chan = 1
         /\ i \notin Range(rows[p])

(* C33: within a tick the rows are taken one at a time in ascending seq.   *)
(* The selected rows are in ascending order, the loop index only goes      *)
(* forward by one, and every call and every change of a row made while the *)
(* loop is at a row is for that row: after all those of the rows before it *)
(* and before all those of the rows after it.                              *)
C33_InOrder ==
  /\ [](\A p \in Procs : \A k \in 1..Len(rows[p]) :
          k < Len(rows[p]) => rows[p][k] < rows[p][k + 1])
  /\ [][\A p \in Procs :
          pc[p] \in LoopPcs =>
            /\ \A i \in Records :
                 (db'[i] # db[i] \/ hist'[i] # hist[i]) => i = cur(p)
            /\ calls'.made # {} => calls'.by = p /\ calls'.row = cur(p)
            /\ idx'[p] \in {idx[p], idx[p] + 1} \/ pc'[p] = "idle"
            /\ rows'[p] = rows[p] \/ pc'[p] = "idle"
            /\ (idx'[p] = idx[p] + 1 /\ pc'[p] # "release") =>
                 pc'[p] = "channel" /\ idx'[p] <= Len(rows[p])]_vars

C33_Witness ==
  \E p \in Procs :
    /\ pc[p] \in LoopPcs
    /\ idx[p] = 2
    /\ calls.by = p
    /\ calls.row = rows[p][2]
    /\ calls.made # {}
    /\ rows[p][1] < rows[p][2]
    /\ hist[rows[p][1]] # NoHist

C35_ContractIdSetOnce ==
  [][\A i \in Records :
       /\ db'[i].contractId # db[i].contractId =>
            /\ db[i].contractId = NULL
            /\ db'[i].contractStatus = "A"
            /\ hist'[i].doc = hist[i].doc + 1
            /\ "create_document_from_template" \in calls'.made
            /\ calls'.row = i
       /\ hist'[i].doc # hist[i].doc => db[i].contractId = NULL]_vars

C35_Witness ==
  \E p \in Procs :
    /\ pc[p] = "final"
    /\ prev_state_map[p][cur(p)] = "I"
    /\ db[cur(p)].contractId = "D"
    /\ hist[cur(p)].doc = 1
    /\ "create_document_from_template" \notin calls.made

(* C36: the manual resend is gated on 'E'.  A resend makes eformsign calls *)
(* only for a row whose contractStatus is 'E'; for a row with any other    *)
(* contractStatus, for a seq no row has and for a request without seq it   *)
(* answers with an error code, makes no call and changes no row.           *)
C36_ResendGated ==
  [][/\ calls'.made \cap DispatcherCalls # {} =>
          /\ calls'.row \in Records
          /\ db[calls'.row].contractStatus = "E"
          /\ \A i \in Records : i # calls'.row => db'[i] = db[i]
     /\ \A seq \in ResendSeqs :
          (calls'.row = seq /\ (seq \notin Records \/ db[seq].contractStatus # "E"))
            => /\ calls'.code # 20000
               /\ calls'.made = {}
               /\ db' = db
               /\ hist' = hist]_vars

C36_Witness ==
  \E i \in Records :
    /\ calls.row = i
    /\ calls.code = 20000
    /\ "create_document_from_template" \in calls.made
    /\ db[i].contractStatus = "A"
    /\ db[i].contractId = "D"
    /\ \E k \in Records : k # i /\ db[k].contractStatus = "P"

(* C37: membership liveness.  A row in 'I' with a channel, whose lookup    *)
(* finds the user and whose invitation succeeds or answers                 *)
(* already_in_channel in every tick, is 'A' in the end, under ticks that   *)
(* are fired again and again and run to their end.                         *)
C37_MembershipLiveness ==
  \A i \in Records :
    (db[i].stateCode = "I" /\ db[i].channelId # NULL) ~> (db[i].stateCode = "A")

(* C38: commission bounds.  For every amount that is not negative and      *)
(* every template with its percents in 0..100 the commission is at least 0 *)
(* and at most the amount, so the net amount is not negative; without a    *)
(* template the commission is 0.                                           *)
C38_CommissionBounds ==
  Settled =>
    /\ 0 <= settlement.commission
    /\ settlement.commission <= settlement.items_total
    /\ settlement.supplier.contractTemplate \notin {"A", "B"} => settlement.commission = 0

C38_Witness ==
  /\ Settled
  /\ settlement.supplier.contractTemplate = "B"
  /\ settlement.supplier.contractPercentUnder = 100
  /\ settlement.supplier.contractPercentOver = 100
  /\ settlement.items_total > TierAmount
  /\ settlement.commission = settlement.items_total

(* C39: the start of the scheduler is idempotent.  After any number of     *)
(* calls of start_scheduler in a process at most one scheduler is running, *)
(* it holds supplier_slack_job once, at most one instance of that job runs *)
(* in the process, and the parent process of the debug reloader runs no    *)
(* scheduler.                                                              *)
C39_StartIdempotent ==
  sched.stage = "up" =>
    /\ Cardinality(sched.running) <= 1
    /\ \A s \in sched.running :
         /\ sched.jobs[s]["supplier_slack_job"] = 1
         /\ sched._scheduler = s
    /\ \A s, t \in Schedulers :
         (sched.inst[s]["supplier_slack_job"] > 0 /\ sched.inst[t]["supplier_slack_job"] > 0)
           => s = t /\ sched.inst[s]["supplier_slack_job"] = 1
    /\ ReloaderParent(sched) => sched.running = {}

C39_Witness ==
  /\ sched.stage = "up"
  /\ sched.starts = MaxStarts
  /\ sched.running = {1}
  /\ sched.inst[1]["supplier_slack_job"] = 1

====
